---- MODULE Spec2Model ----
(***************************************************************************)
(* Model of untitled2.py: the Streamlit dashboard script for food price    *)
(* inflation.  One behaviour is a sequence of script runs in one process.  *)
(* Each run executes the script top to bottom: load_data (memoized by      *)
(* st.cache_data), the sidebar widgets, the year/month/value filter, one   *)
(* chart branch and the CSV export.  An uncaught exception ends the run.   *)
(***************************************************************************)
EXTENDS Integers, Sequences, FiniteSets, TLC

VARIABLES
    runs,           \* number of the script run in progress
    pc,             \* position of the running script
    cache,          \* st.cache_data store of load_data: <<>> or <<table>>
    fetches,        \* number of times pd.read_csv (line 13) returned the served file
    source,         \* what the URL does on this call of load_data's body
    error,          \* uncaught exception that ended the run, "" if none
    names,          \* names bound in the script's namespace in this run
    data,           \* local `data` of load_data
    df,             \* `df`
    year_range,     \* `year_range` = <<low, high>>
    selected_month, \* `selected_month`
    cpi_range,      \* <<min_cpi, max_cpi>>
    chart_type,     \* `chart_type`
    filtered_data,  \* `filtered_data`
    fig,            \* `fig`
    csv             \* `csv`

vars == <<runs, pc, cache, fetches, source, error, names, data, df, year_range,
          selected_month, cpi_range, chart_type, filtered_data, fig, csv>>

----------------------------------------------------------------------------
(* Bounds of the exploration *)

MaxRows == 3        \* rows in the table served by the URL
MaxRuns == 2        \* script runs in one process

----------------------------------------------------------------------------
(* Values *)

FoodPriceInflation == "Food price inflation"

\* NaN / NaT, the result of a coercion that failed (errors='coerce')
NaN == -1

\* NaN in a Categorical Month column
NaNMonth == "nan"

DefaultYearLow == 2000
DefaultYearHigh == 2020

\* int() of a NaN raises ValueError
ValueError == "ValueError"

\* what the URL does: it serves the table, it cannot be reached, or it serves
\* a file without the 'Item' column
Sources == {"served", "unreachable", "malformed"}

\* the exceptions of load_data when the source cannot be fetched or parsed:
\* pd.read_csv raises URLError, data['Item'] raises KeyError
DataUnavailable == {"URLError", "KeyError"}

ChartTypes == {"Line Chart", "Bar Chart", "Area Chart", "Box Plot", "Pie Chart"}

month_order == <<"January", "February", "March", "April", "May", "June",
                 "July", "August", "September", "October", "November", "December">>

RawRow(item, enddate, year, month, value) ==
    [Item |-> item, EndDate |-> enddate, Year |-> year, Month |-> month, Value |-> value]

\* Rows the served CSV is made of: cells are the text of the file
RawRows ==
    { RawRow(FoodPriceInflation, "2019-01-31", "2019", "January", "5.0"),
      RawRow(FoodPriceInflation, "2020-03-31", "2020", "March", "7.0"),
      RawRow(FoodPriceInflation, "2020-01-31", "2020", "January", "7.0"),
      RawRow(FoodPriceInflation, "2019-01-31", "2019", "Jan", "5.0"),
      RawRow("General", "2020-01-31", "2020", "January", "7.0"),
      RawRow(FoodPriceInflation, "2020-01-31", "2020", "January", "N/A"),
      RawRow(FoodPriceInflation, "not a date", "2020", "January", "7.0"),
      RawRow(FoodPriceInflation, "2020-01-31", "n.d.", "January", "7.0") }

RawTables == UNION { [1..n -> RawRows] : n \in 0..MaxRows }

\* Positions the user can drag the sliders to
YearChoices == {DefaultYearLow, 2019, DefaultYearHigh}
CpiChoices == {5, 7}

----------------------------------------------------------------------------
(* pandas primitives *)

NumericText ==
    ("2019" :> 2019) @@ ("2020" :> 2020) @@ ("5.0" :> 5) @@ ("7.0" :> 7)

DateText == ("2019-01-31" :> 20190131) @@ ("2020-01-31" :> 20200131)
            @@ ("2020-03-31" :> 20200331)

\* pd.to_numeric(x, errors='coerce')
ToNumeric(text) == IF text \in DOMAIN NumericText THEN NumericText[text] ELSE NaN

\* pd.to_datetime(x, errors='coerce')
ToDatetime(text) == IF text \in DOMAIN DateText THEN DateText[text] ELSE NaN

IsNa(x) == x = NaN

\* df[mask]: the rows whose mask entry is TRUE, in the order of df
RECURSIVE BoolIndexFrom(_, _, _)
BoolIndexFrom(t, mask, i) ==
    IF i > Len(t) THEN << >>
    ELSE IF mask[i] THEN <<t[i]>> \o BoolIndexFrom(t, mask, i + 1)
         ELSE BoolIndexFrom(t, mask, i + 1)

\* a mask applied one position late
BoolIndexShifted(t, mask) ==
    BoolIndexFrom(t, [i \in 1..Len(t) |-> IF i = 1 THEN FALSE ELSE mask[i - 1]], 1)

BoolIndex(t, mask) == BoolIndexFrom(t, mask, 1)

\* a mask that keeps the rows of every category
ItemMaskAny(t) == [i \in 1..Len(t) |-> t[i].Item # ""]

\* data['Item'] == "Food price inflation"
ItemMask(t) == [i \in 1..Len(t) |-> t[i].Item = FoodPriceInflation]

\* the three conversions of lines 19-21
CoerceRow(r) ==
    [r EXCEPT !.EndDate = ToDatetime(@), !.Year = ToNumeric(@), !.Value = ToNumeric(@)]

\* dropna with 'Value' left out of the subset
CompleteMaskNoValue(t) ==
    [i \in 1..Len(t) |-> ~IsNa(t[i].EndDate) /\ ~IsNa(t[i].Year)]

\* the rows dropna(subset=['EndDate', 'Year', 'Value']) keeps
CompleteMask(t) ==
    [i \in 1..Len(t) |-> ~IsNa(t[i].EndDate) /\ ~IsNa(t[i].Year) /\ ~IsNa(t[i].Value)]

SetMin(S) == CHOOSE x \in S : \A y \in S : x <= y
SetMax(S) == CHOOSE x \in S : \A y \in S : x >= y

Column(t, c) == { t[i][c] : i \in 1..Len(t) }

\* Series.min() / Series.max(): NaN on an empty column
SeriesMin(t, c) == IF t = << >> THEN NaN ELSE SetMin(Column(t, c))
SeriesMax(t, c) == IF t = << >> THEN NaN ELSE SetMax(Column(t, c))

----------------------------------------------------------------------------
(* The script *)

NoFig == [kind |-> "None", data |-> << >>]

Init ==
    /\ runs = 1
    /\ pc = "load_data"
    /\ cache = << >>
    /\ fetches = 0
    /\ source = "served"
    /\ error = ""
    /\ names = {}
    /\ data = << >>
    /\ df = << >>
    /\ year_range = <<DefaultYearLow, DefaultYearHigh>>
    /\ selected_month = {}
    /\ cpi_range = <<0, 0>>
    /\ chart_type = "Line Chart"
    /\ filtered_data = << >>
    /\ fig = NoFig
    /\ csv = << >>

\* line 28 with the decorator of line 10: a stored value is returned
CacheHit ==
    /\ pc = "load_data"
    /\ cache # << >>
    /\ df' = cache[1]
    /\ names' = names \cup {"df"}
    /\ pc' = "year_slider"
    /\ UNCHANGED <<runs, cache, fetches, source, error, data, year_range, selected_month,
                   cpi_range, chart_type, filtered_data, fig, csv>>

\* a decorator that never finds the stored value
CacheMissAlways ==
    /\ pc = "load_data"
    /\ \E s \in Sources : source' = s
    /\ pc' = "read_csv"
    /\ UNCHANGED <<runs, cache, fetches, error, names, data, df, year_range, selected_month,
                   cpi_range, chart_type, filtered_data, fig, csv>>

\* line 28 with the decorator of line 10: nothing stored, the body runs
CacheMiss ==
    /\ pc = "load_data"
    /\ cache = << >>
    /\ \E s \in Sources : source' = s
    /\ pc' = "read_csv"
    /\ UNCHANGED <<runs, cache, fetches, error, names, data, df, year_range, selected_month,
                   cpi_range, chart_type, filtered_data, fig, csv>>

\* line 13: the URL is served and parsed
ReadCsvOk ==
    /\ pc = "read_csv"
    /\ source = "served"
    /\ \E raw \in RawTables : data' = raw
    /\ fetches' = fetches + 1
    /\ pc' = "item_filter"
    /\ UNCHANGED <<runs, cache, source, error, names, df, year_range, selected_month,
                   cpi_range, chart_type, filtered_data, fig, csv>>

\* the exception swallowed and an empty table used instead
ReadCsvSwallowed ==
    /\ pc = "read_csv"
    /\ source = "unreachable"
    /\ df' = << >>
    /\ names' = names \cup {"df"}
    /\ pc' = "year_slider"
    /\ UNCHANGED <<runs, cache, fetches, source, error, data, year_range, selected_month,
                   cpi_range, chart_type, filtered_data, fig, csv>>

\* line 13: pd.read_csv raises; the exception leaves load_data and the script
ReadCsvRaises ==
    /\ pc = "read_csv"
    /\ source = "unreachable"
    /\ error' = "URLError"
    /\ pc' = "failed"
    /\ UNCHANGED <<runs, cache, fetches, source, names, data, df, year_range, selected_month,
                   cpi_range, chart_type, filtered_data, fig, csv>>

\* line 13: a file without the 'Item' column is read; its rows play no part
ReadCsvMalformed ==
    /\ pc = "read_csv"
    /\ source = "malformed"
    /\ data' = << >>
    /\ fetches' = fetches + 1
    /\ pc' = "item_filter"
    /\ UNCHANGED <<runs, cache, source, error, names, df, year_range, selected_month,
                   cpi_range, chart_type, filtered_data, fig, csv>>

\* line 16 on a file without the column: data['Item'] raises KeyError
ItemFilterRaises ==
    /\ pc = "item_filter"
    /\ source = "malformed"
    /\ error' = "KeyError"
    /\ pc' = "failed"
    /\ UNCHANGED <<runs, cache, fetches, source, names, data, df, year_range, selected_month,
                   cpi_range, chart_type, filtered_data, fig, csv>>

\* line 16
ItemFilter ==
    /\ pc = "item_filter"
    /\ source = "served"
    /\ data' = BoolIndex(data, ItemMask(data))
    /\ pc' = "coerce"
    /\ UNCHANGED <<runs, cache, fetches, source, error, names, df, year_range, selected_month,
                   cpi_range, chart_type, filtered_data, fig, csv>>

\* lines 19-21
Coerce ==
    /\ pc = "coerce"
    /\ data' = [i \in 1..Len(data) |-> CoerceRow(data[i])]
    /\ pc' = "dropna"
    /\ UNCHANGED <<runs, cache, fetches, source, error, names, df, year_range, selected_month,
                   cpi_range, chart_type, filtered_data, fig, csv>>

\* line 24
DropNa ==
    /\ pc = "dropna"
    /\ data' = BoolIndex(data, CompleteMask(data))
    /\ pc' = "return"
    /\ UNCHANGED <<runs, cache, fetches, source, error, names, df, year_range, selected_month,
                   cpi_range, chart_type, filtered_data, fig, csv>>

\* line 26: the result is stored by the decorator and bound to df (line 28)
Return ==
    /\ pc = "return"
    /\ cache' = <<data>>
    /\ df' = data
    /\ data' = << >>
    /\ names' = names \cup {"df"}
    /\ pc' = "year_slider"
    /\ UNCHANGED <<runs, fetches, source, error, year_range, selected_month,
                   cpi_range, chart_type, filtered_data, fig, csv>>

\* st.slider widens its bounds so that they contain the default value
SliderLow(lo, default) == IF default < lo THEN default ELSE lo
SliderHigh(hi, default) == IF default > hi THEN default ELSE hi

\* line 49 on an empty table: int(nan) raises ValueError
YearSliderRaises ==
    /\ pc = "year_slider"
    /\ IsNa(SeriesMin(df, "Year"))
    /\ error' = ValueError
    /\ pc' = "failed"
    /\ UNCHANGED <<runs, cache, fetches, source, names, data, df, year_range, selected_month,
                   cpi_range, chart_type, filtered_data, fig, csv>>

\* line 49: the user's range lies within the slider's bounds
YearSlider ==
    /\ pc = "year_slider"
    /\ ~IsNa(SeriesMin(df, "Year"))
    /\ \E lo \in YearChoices, hi \in YearChoices :
         /\ SliderLow(SeriesMin(df, "Year"), DefaultYearLow) <= lo
         /\ lo <= hi
         /\ hi <= SliderHigh(SeriesMax(df, "Year"), DefaultYearHigh)
         /\ year_range' = <<lo, hi>>
    /\ names' = names \cup {"year_range"}
    /\ pc' = "month_select"
    /\ UNCHANGED <<runs, cache, fetches, source, error, data, df, selected_month,
                   cpi_range, chart_type, filtered_data, fig, csv>>

\* line 52: df['Month'].unique()
month_options(t) == Column(t, "Month")

\* line 53: any subset of the options, the empty one included
MonthSelect ==
    /\ pc = "month_select"
    /\ \E sel \in SUBSET month_options(df) : selected_month' = sel
    /\ names' = names \cup {"selected_month"}
    /\ pc' = "cpi_slider"
    /\ UNCHANGED <<runs, cache, fetches, source, error, data, df, year_range,
                   cpi_range, chart_type, filtered_data, fig, csv>>

\* line 56: a range within [min Value, max Value]
CpiSlider ==
    /\ pc = "cpi_slider"
    /\ \E lo \in CpiChoices, hi \in CpiChoices :
         /\ SeriesMin(df, "Value") <= lo
         /\ lo <= hi
         /\ hi <= SeriesMax(df, "Value")
         /\ cpi_range' = <<lo, hi>>
    /\ names' = names \cup {"min_cpi", "max_cpi"}
    /\ pc' = "chart_select"
    /\ UNCHANGED <<runs, cache, fetches, source, error, data, df, year_range,
                   selected_month, chart_type, filtered_data, fig, csv>>

\* line 59
ChartSelect ==
    /\ pc = "chart_select"
    /\ \E c \in ChartTypes : chart_type' = c
    /\ names' = names \cup {"chart_type"}
    /\ pc' = "filter"
    /\ UNCHANGED <<runs, cache, fetches, source, error, data, df, year_range,
                   selected_month, cpi_range, filtered_data, fig, csv>>

\* Series.between with the right endpoint left out
BetweenExclusive(x, lo, hi) == lo <= x /\ x < hi

\* Series.between(lo, hi), inclusive='both'
Between(x, lo, hi) == lo <= x /\ x <= hi

\* an empty selection read as no restriction
IsInOrAll(x, values) == values = {} \/ x \in values

\* Series.isin(values)
IsIn(x, values) == x \in values

\* the mask of lines 62-64
FilterMask(t, yr, months, cr) ==
    [i \in 1..Len(t) |-> /\ Between(t[i].Year, yr[1], yr[2])
                         /\ IsIn(t[i].Month, months)
                         /\ Between(t[i].Value, cr[1], cr[2])]

\* the mask lined up one row late with the table it indexes
FilterRowsShifted(t, yr, months, cr) == BoolIndexShifted(t, FilterMask(t, yr, months, cr))

\* lines 62-64: df[mask]
FilterRows(t, yr, months, cr) == BoolIndex(t, FilterMask(t, yr, months, cr))

\* lines 62-64 and 68
Filter ==
    /\ pc = "filter"
    /\ filtered_data' = FilterRows(df, year_range, selected_month, cpi_range)
    /\ fig' = NoFig
    /\ names' = names \cup {"filtered_data", "fig"}
    /\ pc' = "chart"
    /\ UNCHANGED <<runs, cache, fetches, source, error, data, df, year_range,
                   selected_month, cpi_range, chart_type, csv>>

\* lines 71-78
LineChart ==
    /\ pc = "chart"
    /\ chart_type = "Line Chart"
    /\ fig' = [kind |-> "line", data |-> filtered_data]
    /\ pc' = "export"
    /\ UNCHANGED <<runs, cache, fetches, source, error, names, data, df, year_range,
                   selected_month, cpi_range, chart_type, filtered_data, csv>>

\* lines 80-87
BarChart ==
    /\ pc = "chart"
    /\ chart_type = "Bar Chart"
    /\ fig' = [kind |-> "bar", data |-> filtered_data]
    /\ pc' = "export"
    /\ UNCHANGED <<runs, cache, fetches, source, error, names, data, df, year_range,
                   selected_month, cpi_range, chart_type, filtered_data, csv>>

\* lines 89-96
AreaChart ==
    /\ pc = "chart"
    /\ chart_type = "Area Chart"
    /\ fig' = [kind |-> "area", data |-> filtered_data]
    /\ pc' = "export"
    /\ UNCHANGED <<runs, cache, fetches, source, error, names, data, df, year_range,
                   selected_month, cpi_range, chart_type, filtered_data, csv>>

Orderings(n) ==
    { p \in [1..n -> 1..n] : \A i, j \in 1..n : i # j => p[i] # p[j] }

\* pd.Categorical(values, categories=month_order): other labels become NaN
AsCategorical(m) ==
    IF \E k \in 1..Len(month_order) : month_order[k] = m THEN m ELSE NaNMonth

\* sort key of a categorical month, NaN last
MonthCode(m) ==
    IF \E k \in 1..Len(month_order) : month_order[k] = m
    THEN CHOOSE k \in 1..Len(month_order) : month_order[k] = m
    ELSE Len(month_order) + 1

\* sort_values(by='Month') with the default kind='quicksort': rows come out
\* in ascending month order, rows of one month in an unspecified order
SortByMonth(t) ==
    { [i \in 1..Len(t) |-> t[p[i]]] : p \in
        { q \in Orderings(Len(t)) :
            \A i, j \in 1..Len(t) :
                i < j => MonthCode(t[q[i]].Month) <= MonthCode(t[q[j]].Month) } }

\* lines 98-116: filtered_data is rebound to the converted, sorted table
BoxPlot ==
    /\ pc = "chart"
    /\ chart_type = "Box Plot"
    /\ \E sorted \in SortByMonth([i \in 1..Len(filtered_data) |->
            [filtered_data[i] EXCEPT !.Month = AsCategorical(@)]]) :
         /\ filtered_data' = sorted
         /\ fig' = [kind |-> "box", data |-> sorted]
    /\ names' = names \cup {"month_order"}
    /\ pc' = "export"
    /\ UNCHANGED <<runs, cache, fetches, source, error, data, df, year_range,
                   selected_month, cpi_range, chart_type, csv>>

\* every row, whatever its year
AllYearsRows(t) == t

\* lines 123-124: the rows of the largest Year present
LatestYearRows(t) ==
    BoolIndex(t, [i \in 1..Len(t) |-> t[i].Year = SeriesMax(t, "Year")])

RECURSIVE SumValues(_, _, _)
SumValues(t, month, i) ==
    IF i > Len(t) THEN 0
    ELSE (IF t[i].Month = month THEN t[i].Value ELSE 0) + SumValues(t, month, i + 1)

\* groupby('Month', as_index=False).agg({'Value': 'sum'}): NaN keys are left out
GroupSum(t) ==
    { [Month |-> m, Value |-> SumValues(t, m, 1)] : m \in Column(t, "Month") \ {NaNMonth} }

\* line 130, sort_values(by='Value', ascending=False): groups of one total
\* come out in an unspecified order
SortByValueDesc(G) ==
    { s \in [1..Cardinality(G) -> G] :
        /\ \A i, j \in 1..Cardinality(G) : i # j => s[i] # s[j]
        /\ \A i, j \in 1..Cardinality(G) : i < j => s[i].Value >= s[j].Value }

\* lines 118-141
PieChart ==
    /\ pc = "chart"
    /\ chart_type = "Pie Chart"
    /\ \E grouped \in SortByValueDesc(GroupSum(LatestYearRows(filtered_data))) :
         fig' = [kind |-> "pie", data |-> grouped]
    /\ names' = names \cup {"latest_year", "df_latest_year", "df_latest_year_grouped"}
    /\ pc' = "export"
    /\ UNCHANGED <<runs, cache, fetches, source, error, data, df, year_range,
                   selected_month, cpi_range, chart_type, filtered_data, csv>>

FormatNumber(x) == CHOOSE s \in DOMAIN NumericText : NumericText[s] = x
FormatDate(d) == CHOOSE s \in DOMAIN DateText : DateText[s] = d
FormatMonth(m) == IF m = NaNMonth THEN "" ELSE m

\* line 152, df.to_csv(index=False): the header line, then one line per row
ToCsv(t) ==
    << <<"Item", "EndDate", "Year", "Month", "Value">> >> \o
    [i \in 1..Len(t) |-> <<t[i].Item, FormatDate(t[i].EndDate), FormatNumber(t[i].Year),
                           FormatMonth(t[i].Month), FormatNumber(t[i].Value)>>]

\* lines 144-161
Export ==
    /\ pc = "export"
    /\ csv' = ToCsv(filtered_data)
    /\ names' = names \cup {"csv"}
    /\ pc' = "done"
    /\ UNCHANGED <<runs, cache, fetches, source, error, data, df, year_range,
                   selected_month, cpi_range, chart_type, filtered_data, fig>>

\* the script is run again in the same process: a fresh namespace, the
\* st.cache_data store kept
Rerun ==
    /\ pc \in {"done", "failed"}
    /\ runs < MaxRuns
    /\ pc' = "load_data"
    /\ error' = ""
    /\ names' = {}
    /\ data' = << >>
    /\ df' = << >>
    /\ year_range' = <<DefaultYearLow, DefaultYearHigh>>
    /\ selected_month' = {}
    /\ cpi_range' = <<0, 0>>
    /\ chart_type' = "Line Chart"
    /\ filtered_data' = << >>
    /\ fig' = NoFig
    /\ csv' = << >>
    /\ runs' = runs + 1
    /\ UNCHANGED <<cache, fetches, source>>

Next ==
    \/ CacheHit
    \/ CacheMiss
    \/ ReadCsvOk
    \/ ReadCsvRaises
    \/ ReadCsvMalformed
    \/ ItemFilterRaises
    \/ ItemFilter
    \/ Coerce
    \/ DropNa
    \/ Return
    \/ YearSliderRaises
    \/ YearSlider
    \/ MonthSelect
    \/ CpiSlider
    \/ ChartSelect
    \/ Filter
    \/ LineChart
    \/ BarChart
    \/ AreaChart
    \/ BoxPlot
    \/ PieChart
    \/ Export
    \/ Rerun

Spec == Init /\ [][Next]_vars

----------------------------------------------------------------------------
(* Properties *)

Rows(t) == { t[i] : i \in 1..Len(t) }

Complete(r) == r.EndDate # NaN /\ r.Year # NaN /\ r.Value # NaN

InLoadData == pc \in {"item_filter", "coerce", "dropna", "return"}

\* C1: every row of the table load_data returns (and stores) has Item equal
\* to "Food price inflation"; no row of another Item is in the cleaned table.
C1_OnlyFoodPriceInflation ==
    /\ \A r \in Rows(df) : r.Item = FoodPriceInflation
    /\ \A k \in 1..Len(cache) : \A r \in Rows(cache[k]) : r.Item = FoodPriceInflation
    /\ pc \in {"coerce", "dropna", "return"} =>
          \A r \in Rows(data) : r.Item = FoodPriceInflation

C1_Witness ==
    /\ pc = "year_slider"
    /\ "df" \in names
    /\ df # << >>
    /\ cache = <<df>>

\* C2: every row of the table load_data returns has a typed EndDate, Year
\* and Value; dropna removes exactly the rows in which a conversion failed,
\* keeps the others in order, and no step of load_data after the read raises.
C2_TypedRowsOnly ==
    /\ [](/\ \A r \in Rows(df) : Complete(r)
          /\ \A k \in 1..Len(cache) : \A r \in Rows(cache[k]) : Complete(r))
    /\ [][pc = "dropna" =>
            /\ pc' = "return"
            /\ \A r \in Rows(data') : Complete(r)
            /\ Len(data') = Cardinality({ i \in 1..Len(data) : Complete(data[i]) })
            /\ \A r \in Rows(data) : Complete(r) <=> r \in Rows(data')]_vars
    /\ [][(InLoadData /\ source = "served") => (pc' # "failed" /\ error' = "")]_vars

C2_Witness ==
    /\ pc = "year_slider"
    /\ "df" \in names
    /\ df # << >>
    /\ Len(df) < MaxRows
    /\ \E r \in Rows(df) : r.Value = 5 /\ r.Year = 2019 /\ r.EndDate = 20190131

Satisfies(r) ==
    /\ year_range[1] <= r.Year /\ r.Year <= year_range[2]
    /\ r.Month \in selected_month
    /\ cpi_range[1] <= r.Value /\ r.Value <= cpi_range[2]

Kept == { i \in 1..Len(df) : Satisfies(df[i]) }

KthKept(k) == CHOOSE i \in Kept : Cardinality({ j \in Kept : j < i }) = k - 1

\* C3: the filtered table is exactly the rows of the cleaned table whose Year
\* lies in [yLow, yHigh], whose Month is selected and whose Value lies in
\* [vLow, vHigh], endpoints included, in the order of the cleaned table and
\* with duplicates kept.
C3_FilterIsExactSubsequence ==
    pc = "chart" =>
        /\ Len(filtered_data) = Cardinality(Kept)
        /\ \A k \in 1..Len(filtered_data) : filtered_data[k] = df[KthKept(k)]

C3_Witness ==
    /\ pc = "chart"
    /\ year_range[1] < year_range[2]
    /\ Len(filtered_data) < Len(df)
    /\ \E i, j \in 1..Len(filtered_data) :
         /\ i < j
         /\ filtered_data[i].Year = year_range[1] /\ filtered_data[i].Value = cpi_range[1]
         /\ filtered_data[j].Year = year_range[2] /\ filtered_data[j].Value = cpi_range[2]

\* C4: with no month selected the filtered table has no rows, whatever the
\* year range and the value range.
C4_EmptyMonthsEmptyResult ==
    (pc \in {"chart", "export", "done"} /\ selected_month = {}) => filtered_data = << >>

C4_Witness ==
    /\ pc = "chart"
    /\ selected_month = {}
    /\ df # << >>
    /\ \A r \in Rows(df) : /\ year_range[1] <= r.Year /\ r.Year <= year_range[2]
                           /\ cpi_range[1] <= r.Value /\ r.Value <= cpi_range[2]

\* C5: filtering the filtered table again with the same three constraints
\* returns the filtered table.
C5_FilterIdempotent ==
    pc = "chart" =>
        FilterRows(filtered_data, year_range, selected_month, cpi_range) = filtered_data

C5_Witness ==
    /\ pc = "chart"
    /\ Len(filtered_data) >= 2
    /\ Len(filtered_data) < Len(df)

C7_EmptyResultCompletes ==
    ("df" \in names /\ (df = << >> \/ filtered_data = << >>)) => pc # "failed"

\* C8 as stated: over the runs of one process the source is fetched at most once.
C8_FetchedAtMostOnce == fetches <= 1

\* C8 as amended: once a call of load_data has succeeded the source is never
\* fetched again and every later call returns the stored table; a call that
\* failed stored nothing, so the next run fetches again.
C8_NoFetchAfterSuccess ==
    /\ [][cache # << >> => (fetches' = fetches /\ cache' = cache /\ pc' # "read_csv")]_vars
    /\ []((cache # << >> /\ "df" \in names) => df = cache[1])
    /\ [][(pc = "load_data" /\ cache # << >>) => (pc' = "year_slider" /\ df' = cache[1])]_vars

C8_Witness ==
    /\ runs = 2
    /\ fetches = 1
    /\ cache # << >>
    /\ cache[1] # << >>
    /\ pc = "year_slider"
    /\ df = cache[1]

\* C9: the table written for download is the table produced by the
\* year/month/value filter, rows, order and values, for every chart type.
C9_ExportIsFilteredTable ==
    pc = "done" =>
        /\ filtered_data = FilterRows(df, year_range, selected_month, cpi_range)
        /\ csv = ToCsv(FilterRows(df, year_range, selected_month, cpi_range))

PieDone == pc \in {"export", "done"} /\ chart_type = "Pie Chart"

\* C10 as stated: the aggregation has one row per distinct (month, year) pair
\* of the filtered table.
C10_OneRowPerMonthYear ==
    PieDone =>
        Len(fig.data) = Cardinality({ <<r.Month, r.Year>> : r \in Rows(filtered_data) })

LatestYear == CHOOSE y \in Column(filtered_data, "Year") :
                 \A r \in Rows(filtered_data) : r.Year <= y

LatestIndices == { i \in 1..Len(filtered_data) : filtered_data[i].Year = LatestYear }

LatestMonths == { filtered_data[i].Month : i \in LatestIndices }

RECURSIVE Total(_)
Total(I) ==
    IF I = {} THEN 0
    ELSE LET i == CHOOSE x \in I : TRUE IN filtered_data[i].Value + Total(I \ {i})

\* C10 as amended: the aggregation of the Pie Chart branch has one row per
\* distinct month among the rows of the latest year of the filtered table,
\* none for a month absent from that year, each holding the sum of the
\* month's values.
C10_OneRowPerMonthOfLatestYear ==
    PieDone =>
        IF filtered_data = << >> THEN fig.data = << >>
        ELSE /\ Len(fig.data) = Cardinality(LatestMonths)
             /\ { fig.data[k].Month : k \in 1..Len(fig.data) } = LatestMonths
             /\ \A k \in 1..Len(fig.data) :
                  fig.data[k].Value =
                     Total({ i \in LatestIndices : filtered_data[i].Month = fig.data[k].Month })

C10_Witness ==
    /\ PieDone
    /\ Len(fig.data) >= 1
    /\ \E r, q \in Rows(filtered_data) : r.Year # q.Year /\ r.Month # q.Month

====
